---- MODULE Spec2Model ----
(***************************************************************************)
(* The FATMAN calculation runner daemon (fatman_clients/fdaemon.py) and    *)
(* its runners (fatman_clients/fdaemon.py DirectRunner,                    *)
(* fatman_clients/runners.py SlurmRunner / DirectRunner / MPIRunner),      *)
(* together with the parts of their environment they talk to: the remote   *)
(* task service, the local data directory and the batch system.            *)
(***************************************************************************)
EXTENDS Integers, Sequences, FiniteSets, TLC

\* ------------------------------------------------------------------ bounds
NumTasks == 2
NumCmds == 2
NumInfiles == 1
MaxStarted == 2
MaxChecks == 2

Tasks == 1..NumTasks
Cmds == 1..NumCmds
Infiles == 1..NumInfiles

\* ------------------------------------------------------------- vocabulary
Hostname == "me"
OtherHost == "other"
NoHost == "none"

\* the runner names a task's settings.machine.runner may carry
RunnerNames == {"direct", "slurm", "mpi", "nosuch"}

\* the registry of fdaemon.py ...
RUNNERS == {"direct"}
\* ... and the classes of runners.py, registered under the names the
\* specification gives them
RUNNERS_runners == {"slurm", "mpi"}

\* runners whose run() is DirectRunner.run (MPIRunner inherits it)
Blocking == {"direct", "mpi"}

\* file names of a task directory, all of the shape <<kind, index>>
CmdName(k) == <<"cmd", k>>
StdoutFn(k) == <<"out", k>>
StderrFn(k) == <<"err", k>>
InfileFn(i) == <<"in", i>>
SbatchOut == <<"sbatch.out", 0>>
SbatchErr == <<"sbatch.err", 0>>

Range(s) == {s[i] : i \in 1..Len(s)}

\* settings.output_artifacts: glob patterns; the list most tasks carry
PatOut == <<"*.out", 0>>
PatLog == <<"calc.log", 0>>
output_artifacts == <<PatOut, PatLog>>

\* glob(path.join(task_dir, a_name)): the files of the directory a pattern names
glob(pat, files) ==
    IF pat = PatOut THEN {f \in files : f[1] = "out"}
    ELSE {f \in files : f = pat}

NoDir == [dir |-> FALSE, files |-> {}, data |-> {}]
EmptyDir == [dir |-> TRUE, files |-> {}, data |-> {}]

\* runner.data as far as the daemon and the runners fill it
NoData == [warnings |-> <<>>, errors |-> <<>>]

NoTask == [id |-> 0, fetched |-> "none", status |-> "none", machine |-> NoHost]
\* a runner: the fields of RunnerBase, and as history of this instance the
\* number of calls of the running-task callback (cb) and the outcome of every
\* command it tried to run (rcs: an exit status, or -1 when it did not start)
NoRunner == [name |-> "none", finished |-> FALSE, success |-> FALSE,
             outfiles |-> <<>>, warnings |-> <<>>, errors |-> <<>>,
             cb |-> 0, rcs |-> <<>>]

\* task['settings']: the runner's name, the number of entries of `commands`
\* with the ignore_returncode of each, and the output_artifacts patterns
TaskSettings ==
    [runner : RunnerNames, ignore_returncode : [Cmds -> BOOLEAN],
     commands : {NumCmds}, output_artifacts : {output_artifacts}]

\* the tasks this daemon's pool of hosts is to run; the others belong to
\* another host, which has finished them
Submitted == {1}
ForeignSettings ==
    [runner |-> "direct", ignore_returncode |-> [k \in Cmds |-> FALSE],
     commands |-> NumCmds, output_artifacts |-> output_artifacts]

VARIABLES
    settings,   \* task -> its settings (owned by the service, never changed)
    remote,     \* task -> [status, machine, data] as the service holds it
    fs,         \* task -> its directory under data_dir
    slurm,      \* task -> the batch system's view of the job named after it
    pc,         \* where the daemon process is
    phase,      \* which part of task_iterator yielded the current task
    queue,      \* the own tasks task_iterator has still to yield
    task,       \* main's local variable task
    runner,     \* main's local variable runner
    idx,        \* the index of the for loop in progress (infiles, commands)
    exc,        \* the exception run()/check() left with, if any
    filepaths,  \* main's local variable filepaths, what is left to upload
    sent,       \* the names uploaded so far in the current finalization
    exitCause,  \* why the daemon process ended, if it did
    started     \* task -> how often its commands were started or its
                \* script submitted (history, saturating at 2)

vars == <<settings, remote, fs, slurm, pc, phase, queue, task, runner,
          idx, exc, filepaths, sent, exitCause, started>>

env == <<settings, remote, fs, slurm, started>>

NoJob == [state |-> "none", parent |-> "none", cmds |-> [k \in Cmds |-> "none"]]

Init ==
    /\ \E s \in [Submitted -> TaskSettings] :
         settings = [t \in Tasks |-> IF t \in Submitted THEN s[t] ELSE ForeignSettings]
    /\ remote = [t \in Tasks |-> IF t \in Submitted
                                  THEN [status |-> "new", machine |-> NoHost,
                                        data |-> NoData]
                                  ELSE [status |-> "done", machine |-> OtherHost,
                                        data |-> NoData]]
    /\ fs = [t \in Tasks |-> NoDir]
    /\ slurm = [t \in Tasks |-> NoJob]
    /\ pc = "iter_own"
    /\ phase = "own"
    /\ queue = <<>>
    /\ task = NoTask
    /\ runner = NoRunner
    /\ idx = 0
    /\ exc = "none"
    /\ filepaths = <<>>
    /\ sent = <<>>
    /\ exitCause = "none"
    /\ started = [t \in Tasks |-> 0]

\* len(settings['commands']) of the task main holds
NCmds == settings[task.id].commands

\* path.join(data_dir, task['id']), path.join(task_dir, name), and
\* path.relpath(filepath, task_dir)
task_dir(t) == <<"data_dir", t>>
join(d, name) == <<d, name>>
relpath(p, d) == IF p[1] = d THEN p[2] ELSE <<"..", 0>>
Joined(d, names) == [i \in 1..Len(names) |-> join(d, names[i])]

\* ------------------------------------------------------------ the process
\* an exception nothing catches ends main, and with it the process
Terminate(cause) ==
    /\ pc' = "dead"
    /\ exitCause' = cause
    /\ phase' = "own"
    /\ queue' = <<>>
    /\ task' = NoTask
    /\ runner' = NoRunner
    /\ idx' = 0
    /\ exc' = "none"
    /\ filepaths' = <<>>
    /\ sent' = <<>>

\* `continue`, or the end of the loop body: back into task_iterator, which
\* resumes after the yield it is suspended in
NextTask ==
    /\ pc' = IF phase = "own" THEN "yield_own" ELSE "nap"
    /\ task' = NoTask
    /\ runner' = NoRunner
    /\ idx' = 0
    /\ exc' = "none"
    /\ filepaths' = <<>>
    /\ sent' = <<>>
    /\ UNCHANGED <<phase, queue, exitCause>>

\* ---------------------------------------------------------- the service
\* GET tasks?machine=<host>&status=pending,running, in the service's order
RECURSIVE OwnTasks(_, _)
OwnTasks(rem, t) ==
    IF t > NumTasks THEN <<>>
    ELSE IF rem[t].machine = Hostname /\ rem[t].status \in {"pending", "running"}
         THEN <<[id |-> t, status |-> rem[t].status]>> \o OwnTasks(rem, t + 1)
         ELSE OwnTasks(rem, t + 1)

\* GET tasks?limit=1&status=new: the tasks the service may answer with
NewTasks(rem) == {t \in Tasks : rem[t].status = "new"}

\* ------------------------------------------------------- task_iterator
\* every remote call is made with `ok`: whether the service answers it, or
\* raise_for_status() raises an HTTPError
task_iterator_own(ok) ==
    /\ pc = "iter_own"
    /\ IF ok
       THEN /\ queue' = OwnTasks(remote, 1)
            /\ phase' = "own"
            /\ pc' = "yield_own"
            /\ UNCHANGED <<task, runner, idx, exc, filepaths, sent, exitCause>>
       ELSE Terminate("http_list")
    /\ UNCHANGED env

\* (an iterator that yields the listed tasks from the end of the list)
task_iterator_yield_last ==
    /\ pc = "yield_own"
    /\ IF queue # <<>>
       THEN /\ task' = [id |-> queue[Len(queue)].id, fetched |-> queue[Len(queue)].status,
                        status |-> queue[Len(queue)].status, machine |-> Hostname]
            /\ queue' = SubSeq(queue, 1, Len(queue) - 1)
            /\ pc' = "acquire"
       ELSE /\ pc' = "iter_new"
            /\ UNCHANGED <<task, queue>>
    /\ UNCHANGED <<phase, runner, idx, exc, filepaths, sent, exitCause>>
    /\ UNCHANGED env

\* (an iterator that asks for a new task before the listed ones are through)
task_iterator_yield_early ==
    /\ pc = "yield_own"
    /\ pc' = "iter_new"
    /\ UNCHANGED <<phase, queue, task, runner, idx, exc, filepaths, sent, exitCause>>
    /\ UNCHANGED env

task_iterator_yield ==
    /\ pc = "yield_own"
    /\ IF queue # <<>>
       THEN /\ task' = [id |-> Head(queue).id, fetched |-> Head(queue).status,
                        status |-> Head(queue).status, machine |-> Hostname]
            /\ queue' = Tail(queue)
            /\ pc' = "acquire"
       ELSE /\ pc' = "iter_new"
            /\ UNCHANGED <<task, queue>>
    /\ UNCHANGED <<phase, runner, idx, exc, filepaths, sent, exitCause>>
    /\ UNCHANGED env

task_iterator_new(ok) ==
    /\ pc = "iter_new"
    /\ IF ok
       THEN /\ phase' = "new"
            /\ \/ /\ NewTasks(remote) = {}
                  /\ pc' = "nap"
                  /\ UNCHANGED task
               \/ \E t \in NewTasks(remote) :
                    /\ task' = [id |-> t, fetched |-> "new", status |-> "new",
                                machine |-> NoHost]
                    /\ pc' = "acquire"
            /\ UNCHANGED <<queue, runner, idx, exc, filepaths, sent, exitCause>>
       ELSE Terminate("http_list")
    /\ UNCHANGED env

\* (an iterator that returns after one cycle: the for loop of main ends)
task_iterator_ends ==
    /\ pc = "nap"
    /\ Terminate("exhausted")
    /\ UNCHANGED env

task_iterator_nap ==
    /\ pc = "nap"
    /\ pc' = "iter_own"
    /\ UNCHANGED <<phase, queue, task, runner, idx, exc, filepaths, sent, exitCause>>
    /\ UNCHANGED env

\* (a representation that keeps the status of the listing)
RepresentationAsListed(rem, t, fetched) ==
    [id |-> t, fetched |-> fetched, status |-> fetched,
     machine |-> rem[t].machine]

\* ------------------------------------------------- main: the acquisition
\* the representation of a task the service answers a GET or PATCH with
Representation(rem, t, fetched) ==
    [id |-> t, fetched |-> fetched, status |-> rem[t].status,
     machine |-> rem[t].machine]

\* (a claim that does not name the machine)
ClaimedStatusOnly(rem, t, host) ==
    [rem EXCEPT ![t].status = "pending"]

\* PATCH {status: pending, machine: hostname}
Claimed(rem, t, host) ==
    [rem EXCEPT ![t].status = "pending", ![t].machine = host]

\* the claim of a new task. The service's update is conditional: it refuses
\* the claim of a task that is no longer new (another daemon has won it)
main_claim(ok) ==
    /\ pc = "acquire"
    /\ task.status = "new"
    /\ IF remote[task.id].status # "new"
       THEN /\ Terminate("claim_lost")
            /\ UNCHANGED remote
       ELSE IF ok
       THEN /\ remote' = Claimed(remote, task.id, Hostname)
            /\ task' = Representation(remote', task.id, task.fetched)
            /\ pc' = "mkrunner"
            /\ UNCHANGED <<phase, queue, runner, idx, exc, filepaths, sent, exitCause>>
       ELSE /\ Terminate("http_claim")
            /\ UNCHANGED remote
    /\ UNCHANGED <<settings, fs, slurm, started>>

\* a pending or running task: GET the complete object
main_fetch(ok) ==
    /\ pc = "acquire"
    /\ task.status # "new"
    /\ IF ok
       THEN /\ task' = Representation(remote, task.id, task.fetched)
            /\ pc' = "mkrunner"
            /\ UNCHANGED <<phase, queue, runner, idx, exc, filepaths, sent, exitCause>>
       ELSE Terminate("http_fetch")
    /\ UNCHANGED env

\* (a lookup that constructs the Direct runner whatever the name)
NewRunnerDirect(name) ==
    [name |-> "direct", finished |-> FALSE, success |-> FALSE,
     outfiles |-> <<>>, warnings |-> <<>>, errors |-> <<>>,
     cb |-> 0, rcs |-> <<>>]

\* RUNNERS[runner_name](task['settings'], task_dir, ...): a fresh runner
NewRunner(name) ==
    [name |-> name, finished |-> FALSE, success |-> FALSE,
     outfiles |-> <<>>, warnings |-> <<>>, errors |-> <<>>,
     cb |-> 0, rcs |-> <<>>]

\* (a lookup that falls back to some runner for an unknown name)
main_runner_lenient ==
    /\ pc = "mkrunner"
    /\ runner' = NewRunner(settings[task.id].runner)
    /\ pc' = "stage"
    /\ UNCHANGED <<phase, queue, task, idx, exc, filepaths, sent, exitCause>>
    /\ UNCHANGED env

main_runner ==
    /\ pc = "mkrunner"
    /\ IF settings[task.id].runner \in RUNNERS \cup RUNNERS_runners
       THEN /\ runner' = NewRunner(settings[task.id].runner)
            /\ pc' = "stage"
            /\ UNCHANGED <<phase, queue, task, idx, exc, filepaths, sent, exitCause>>
       ELSE Terminate("no_runner")
    /\ UNCHANGED env

\* ------------------------------------------------------ main: the staging
\* (staging whatever is assigned to this host)
NeedsStagingOwn(tk) == tk.status \in {"pending", "running"}

NeedsStaging(tk) == tk.status = "pending"

\* (a directory that is kept when it exists)
RebuiltInPlace(dir) == [dir EXCEPT !.dir = TRUE]

\* shutil.rmtree(task_dir) if it exists, then os.mkdir(task_dir)
Rebuilt(dir) == EmptyDir

main_stage_dir ==
    /\ pc = "stage"
    /\ IF NeedsStaging(task)
       THEN /\ fs' = [fs EXCEPT ![task.id] = Rebuilt(@)]
            /\ idx' = 1
            /\ pc' = "download"
       ELSE /\ pc' = "dispatch"
            /\ UNCHANGED <<fs, idx>>
    /\ UNCHANGED <<phase, queue, task, runner, exc, filepaths, sent, exitCause>>
    /\ UNCHANGED <<settings, remote, slurm, started>>

\* a downloaded file: written chunk by chunk, it exists and holds data
Written(dir, f) == [dir EXCEPT !.files = @ \cup {f}, !.data = @ \cup {f}]

\* the task's infiles, downloaded in order
main_stage_download(ok) ==
    /\ pc = "download"
    /\ IF idx > NumInfiles
       THEN /\ pc' = "dispatch"
            /\ idx' = 0
            /\ UNCHANGED <<fs, phase, queue, task, runner, exc, filepaths, sent, exitCause>>
       ELSE IF ok
       THEN /\ fs' = [fs EXCEPT ![task.id] = Written(@, InfileFn(idx))]
            /\ idx' = idx + 1
            /\ pc' = "download"
            /\ UNCHANGED <<phase, queue, task, runner, exc, filepaths, sent, exitCause>>
       ELSE /\ Terminate("http_download")
            /\ UNCHANGED fs
    /\ UNCHANGED <<settings, remote, slurm, started>>

\* ----------------------------------------------------- main: the dispatch
Dispatch(tk) == IF tk.status = "running" THEN "check" ELSE "run"

main_dispatch ==
    /\ pc = "dispatch"
    /\ pc' = Dispatch(task)
    /\ UNCHANGED <<phase, queue, task, runner, idx, exc, filepaths, sent, exitCause>>
    /\ UNCHANGED env

\* --------------------------------------------------------- the runners
Inc(n) == IF n < MaxStarted THEN n + 1 ELSE MaxStarted

\* outfiles.add(f) of runners.py (a set), kept in insertion order
AddFile(fns, f) == IF f \in Range(fns) THEN fns ELSE Append(fns, f)

\* (an assignment in place of the +=)
AppendFilesReplacing(fns, k) == <<StdoutFn(k), StderrFn(k)>>

\* self._outfiles += [stdout_fn, stderr_fn] of fdaemon.py (a list)
AppendFiles(fns, k) == fns \o <<StdoutFn(k), StderrFn(k)>>

Entry(tag, name) == [tag |-> tag, entry |-> name]

\* (a callback that changes nothing on the service)
set_task_running_unsent(rem, t) == rem

\* set_task_running: PATCH {status: running}; the response is not read
set_task_running(rem, t) == [rem EXCEPT ![t].status = "running"]

\* run()/check() is left, with the exception `e` or ("none") by returning
Leave(e) ==
    /\ exc' = e
    /\ pc' = "after"

\* (a run that starts its commands without calling the callback)
DirectRunner_run_nocallback(ok) ==
    /\ pc = "run"
    /\ runner.name \in Blocking
    /\ ok
    /\ runner' = [runner EXCEPT !.finished = TRUE]
    /\ pc' = "run_modules"
    /\ UNCHANGED <<phase, queue, task, idx, exc, filepaths, sent, exitCause>>
    /\ UNCHANGED env

\* (a run that sets finished before it calls the callback)
DirectRunner_run_finished_first(ok) ==
    /\ pc = "run"
    /\ runner.name \in Blocking
    /\ IF ok
       THEN /\ remote' = set_task_running(remote, task.id)
            /\ runner' = [runner EXCEPT !.cb = @ + 1, !.finished = TRUE]
            /\ pc' = "run_modules"
            /\ UNCHANGED exc
       ELSE /\ runner' = [runner EXCEPT !.cb = @ + 1, !.finished = TRUE]
            /\ Leave("http")
            /\ UNCHANGED remote
    /\ UNCHANGED <<phase, queue, task, idx, filepaths, sent, exitCause>>
    /\ UNCHANGED <<settings, fs, slurm, started>>

\* DirectRunner.run, fdaemon.py 129-134 and runners.py 204-209: the callback
\* first, and only then finished
DirectRunner_run_callback(ok) ==
    /\ pc = "run"
    /\ runner.name \in Blocking
    /\ IF ok
       THEN /\ remote' = set_task_running(remote, task.id)
            /\ runner' = [runner EXCEPT !.cb = @ + 1, !.finished = TRUE]
            /\ pc' = "run_modules"
            /\ UNCHANGED exc
       ELSE /\ runner' = [runner EXCEPT !.cb = @ + 1]
            /\ Leave("http")
            /\ UNCHANGED remote
    /\ UNCHANGED <<phase, queue, task, idx, filepaths, sent, exitCause>>
    /\ UNCHANGED <<settings, fs, slurm, started>>

\* (a module load whose failure takes back finished)
DirectRunner_run_modules_unfinished(ok) ==
    /\ pc = "run_modules"
    /\ IF ok
       THEN /\ pc' = "run_open"
            /\ idx' = 1
            /\ UNCHANGED <<exc, runner>>
       ELSE /\ Leave("other")
            /\ runner' = [runner EXCEPT !.finished = FALSE]
            /\ UNCHANGED idx
    /\ UNCHANGED <<phase, queue, task, filepaths, sent, exitCause>>
    /\ UNCHANGED env

\* modulecmd python load <modules>: it can fail when the task declares modules
DirectRunner_run_modules(ok) ==
    /\ pc = "run_modules"
    /\ IF ok
       THEN /\ pc' = "run_open"
            /\ idx' = 1
            /\ UNCHANGED exc
       ELSE /\ Leave("other")
            /\ UNCHANGED idx
    /\ UNCHANGED <<phase, queue, task, runner, filepaths, sent, exitCause>>
    /\ UNCHANGED env

\* open(stdout_fn, 'w'): the file exists and is empty afterwards
Opened(dir, f) == [dir EXCEPT !.files = @ \cup {f}, !.data = @ \ {f}]

\* the head of the for loop over the commands, and its two open() calls, of
\* which `opened` succeed; after the last command, success
DirectRunner_run_open(opened) ==
    /\ pc = "run_open"
    /\ IF idx > NCmds
       THEN /\ opened = 2
            /\ runner' = [runner EXCEPT !.success = TRUE]
            /\ Leave("none")
            /\ UNCHANGED fs
       ELSE /\ runner' = IF runner.name = "direct"
                         THEN [runner EXCEPT !.outfiles = AppendFiles(@, idx)]
                         ELSE runner
            /\ fs' = [fs EXCEPT ![task.id] =
                        IF opened = 0 THEN @
                        ELSE IF opened = 1 THEN Opened(@, StdoutFn(idx))
                        ELSE Opened(Opened(@, StdoutFn(idx)), StderrFn(idx))]
            /\ IF opened = 2
               THEN /\ pc' = "run_exec"
                    /\ UNCHANGED exc
               ELSE Leave("client")
    /\ UNCHANGED <<phase, queue, task, idx, filepaths, sent, exitCause>>
    /\ UNCHANGED <<settings, remote, slurm, started>>

\* the finally clause of runners.py 275-279
Finally(r, k) ==
    IF r.name = "direct" THEN r
    ELSE [r EXCEPT !.outfiles = AddFile(AddFile(@, StdoutFn(k)), StderrFn(k))]

\* except Exception, fdaemon.py 196-199 and runners.py 270-273
Failed(r, k) ==
    [r EXCEPT !.errors = Append(@, Entry("commands", CmdName(k))),
              !.rcs = Append(@, -1)]

\* subprocess.check_call starts the command, or fails to
DirectRunner_run_exec(ok) ==
    /\ pc = "run_exec"
    /\ IF ok
       THEN /\ started' = [started EXCEPT ![task.id] = IF idx = 1 THEN Inc(@) ELSE @]
            /\ pc' = "run_wait"
            /\ UNCHANGED <<runner, exc>>
       ELSE /\ runner' = Finally(Failed(runner, idx), idx)
            /\ Leave("other")
            /\ UNCHANGED started
    /\ UNCHANGED <<phase, queue, task, idx, filepaths, sent, exitCause>>
    /\ UNCHANGED <<settings, remote, fs, slurm>>

\* (every non-zero exit status recorded as an error)
ReturnedError(r, k, rc, ignore) ==
    LET r1 == [r EXCEPT !.rcs = Append(@, rc)] IN
    IF rc = 0 THEN r1
    ELSE [r1 EXCEPT !.errors = Append(@, Entry("commands", CmdName(k)))]

\* except subprocess.CalledProcessError, fdaemon.py 186-194 and runners.py
\* 260-268: what is recorded of an exit status
Returned(r, k, rc, ignore) ==
    LET r1 == [r EXCEPT !.rcs = Append(@, rc)] IN
    IF rc = 0 THEN r1
    ELSE IF ignore
         THEN [r1 EXCEPT !.warnings = Append(@, Entry("commands", CmdName(k)))]
         ELSE [r1 EXCEPT !.errors = Append(@, Entry("commands", CmdName(k)))]

\* (an error that is recorded and not raised again)
RaisesNever(rc, ignore) == FALSE

\* ... and whether it is raised again
Raises(rc, ignore) == rc # 0 /\ ~ignore

\* the command ends: with an exit status, having written to its stdout
\* and stderr or to neither
DirectRunner_run_wait(rc, out) ==
    /\ pc = "run_wait"
    /\ LET ignore == settings[task.id].ignore_returncode[idx] IN
        /\ fs' = [fs EXCEPT ![task.id].data =
                        IF out THEN @ \cup {StdoutFn(idx), StderrFn(idx)} ELSE @]
        /\ runner' = Finally(Returned(runner, idx, rc, ignore), idx)
        /\ IF Raises(rc, ignore)
           THEN /\ Leave("other")
                /\ UNCHANGED idx
           ELSE /\ idx' = idx + 1
                /\ pc' = "run_open"
                /\ UNCHANGED exc
    /\ UNCHANGED <<phase, queue, task, filepaths, sent, exitCause>>
    /\ UNCHANGED <<settings, remote, slurm, started>>

\* DirectRunner.check: fdaemon.py 107-127 records every command's files,
\* runners.py 182-202 those that exist
RECURSIVE CheckFiles(_, _, _, _)
CheckFiles(fns, k, present, existing) ==
    IF k > NCmds THEN fns
    ELSE LET a == IF ~existing \/ StdoutFn(k) \in present
                  THEN AddFile(fns, StdoutFn(k)) ELSE fns
             b == IF ~existing \/ StderrFn(k) \in present
                  THEN AddFile(a, StderrFn(k)) ELSE a
         IN CheckFiles(b, k + 1, present, existing)

DirectRunner_check ==
    /\ pc = "check"
    /\ runner.name \in Blocking
    /\ runner' = [runner EXCEPT
                    !.outfiles = CheckFiles(@, 1, fs[task.id].files,
                                            runner.name # "direct"),
                    !.finished = TRUE]
    /\ Leave("other")
    /\ UNCHANGED <<phase, queue, task, idx, filepaths, sent, exitCause>>
    /\ UNCHANGED env

\* SlurmRunner.run, runners.py 130-142: the two open() calls
SlurmRunner_run_open(ok) ==
    /\ pc = "run"
    /\ runner.name = "slurm"
    /\ IF ok
       THEN /\ fs' = [fs EXCEPT ![task.id] = Opened(Opened(@, SbatchOut), SbatchErr)]
            /\ pc' = "sbatch"
            /\ UNCHANGED exc
       ELSE /\ Leave("client")
            /\ UNCHANGED fs
    /\ UNCHANGED <<phase, queue, task, runner, idx, filepaths, sent, exitCause>>
    /\ UNCHANGED <<settings, remote, slurm, started>>

\* the except clauses of SlurmRunner.run, and its finally clause
SbatchFailed(r) ==
    [r EXCEPT !.errors = Append(@, Entry("commands", <<"sbatch", 0>>)),
              !.finished = TRUE]
SbatchFinally(r) ==
    [r EXCEPT !.outfiles = AddFile(AddFile(@, SbatchOut), SbatchErr)]

\* a job in the live queue; the accounting holds nothing of it yet
Queued == [state |-> "queued", parent |-> "none", cmds |-> [k \in Cmds |-> "none"]]

\* (a submission whose failure does not keep run() from going on)
SlurmRunner_run_sbatch_unchecked(ok) ==
    /\ pc = "sbatch"
    /\ IF ok
       THEN /\ slurm' = [slurm EXCEPT ![task.id] = Queued]
            /\ started' = [started EXCEPT ![task.id] = Inc(@)]
       ELSE UNCHANGED <<slurm, started>>
    /\ pc' = "sbatch_cb"
    /\ UNCHANGED <<runner, exc>>
    /\ UNCHANGED <<phase, queue, task, idx, filepaths, sent, exitCause>>
    /\ UNCHANGED <<settings, remote, fs>>

\* subprocess.check_call(['sbatch', 'run.sh']), runners.py 144-147
SlurmRunner_run_sbatch(ok) ==
    /\ pc = "sbatch"
    /\ IF ok
       THEN /\ slurm' = [slurm EXCEPT ![task.id] = Queued]
            /\ started' = [started EXCEPT ![task.id] = Inc(@)]
            /\ pc' = "sbatch_cb"
            /\ UNCHANGED <<runner, exc>>
       ELSE /\ runner' = SbatchFinally(SbatchFailed(runner))
            /\ Leave("other")
            /\ UNCHANGED <<slurm, started>>
    /\ UNCHANGED <<phase, queue, task, idx, filepaths, sent, exitCause>>
    /\ UNCHANGED <<settings, remote, fs>>

\* running_task_func(), runners.py 148: inside the try of the submission
SlurmRunner_run_callback(ok) ==
    /\ pc = "sbatch_cb"
    /\ IF ok
       THEN /\ remote' = set_task_running(remote, task.id)
            /\ runner' = SbatchFinally([runner EXCEPT !.cb = @ + 1])
            /\ Leave("none")
       ELSE /\ runner' = SbatchFinally(SbatchFailed([runner EXCEPT !.cb = @ + 1]))
            /\ Leave("http")
            /\ UNCHANGED remote
    /\ UNCHANGED <<phase, queue, task, idx, filepaths, sent, exitCause>>
    /\ UNCHANGED <<settings, fs, slurm, started>>

\* (a parent job whose state is never taken for a success)
ParentSucceededNever(acct) == FALSE
\* (a success that needs every command to have completed)
ParentSucceededAll(acct) ==
    acct.parent = "COMPLETED" /\ \A k \in Cmds : acct.cmds[k] = "COMPLETED"

\* sacct_data[tname]['state'] == 'COMPLETED', runners.py 99-100
ParentSucceeded(acct) == acct.parent = "COMPLETED"

\* (a loop that the first command without a record ends)
RECURSIVE SacctCommandsUntilMissing(_, _, _, _)
SacctCommandsUntilMissing(r, k, acct, present) ==
    IF k > NCmds \/ acct.cmds[k] = "none" THEN r
    ELSE IF acct.cmds[k] = "COMPLETED"
         THEN SacctCommandsUntilMissing(r, k + 1, acct, present)
         ELSE LET e == Entry("commands", CmdName(k))
                  r1 == IF r.success
                        THEN [r EXCEPT !.warnings = Append(@, e)]
                        ELSE [r EXCEPT !.errors = Append(@, e)]
                  r2 == IF StdoutFn(k) \in present
                        THEN [r1 EXCEPT !.outfiles = AddFile(@, StdoutFn(k))] ELSE r1
                  r3 == IF StderrFn(k) \in present
                        THEN [r2 EXCEPT !.outfiles = AddFile(@, StderrFn(k))] ELSE r2
              IN SacctCommandsUntilMissing(r3, k + 1, acct, present)

\* (a loop that reports every failed command as an error)
RECURSIVE SacctCommandsAsErrors(_, _, _, _)
SacctCommandsAsErrors(r, k, acct, present) ==
    IF k > NCmds THEN r
    ELSE IF acct.cmds[k] \in {"none", "COMPLETED"}
         THEN SacctCommandsAsErrors(r, k + 1, acct, present)
         ELSE SacctCommandsAsErrors(
                  [r EXCEPT !.errors = Append(@, Entry("commands", CmdName(k)))],
                  k + 1, acct, present)

\* the loop over the commands of SlurmRunner.check, runners.py 103-128
RECURSIVE SacctCommands(_, _, _, _)
SacctCommands(r, k, acct, present) ==
    IF k > NCmds THEN r
    ELSE IF acct.cmds[k] \in {"none", "COMPLETED"}
         THEN SacctCommands(r, k + 1, acct, present)
         ELSE LET e == Entry("commands", CmdName(k))
                  r1 == IF r.success
                        THEN [r EXCEPT !.warnings = Append(@, e)]
                        ELSE [r EXCEPT !.errors = Append(@, e)]
                  r2 == IF StdoutFn(k) \in present
                        THEN [r1 EXCEPT !.outfiles = AddFile(@, StdoutFn(k))] ELSE r1
                  r3 == IF StderrFn(k) \in present
                        THEN [r2 EXCEPT !.outfiles = AddFile(@, StderrFn(k))] ELSE r2
              IN SacctCommands(r3, k + 1, acct, present)

\* SlurmRunner.check, runners.py 57-128; squeue and sacct: whether the two
\* commands can be run at all
SlurmRunner_check(squeue, sacct) ==
    /\ pc = "check"
    /\ runner.name = "slurm"
    /\ LET job == slurm[task.id] IN
        IF ~squeue
        THEN /\ sacct
             /\ Leave("other")
             /\ UNCHANGED runner
        ELSE IF job.state = "queued"
        THEN /\ sacct
             /\ Leave("none")
             /\ UNCHANGED runner
        ELSE IF ~sacct \/ job.parent = "none"
        THEN /\ runner' = [runner EXCEPT !.finished = TRUE]
             /\ Leave("other")
        ELSE /\ runner' = SacctCommands(
                    [runner EXCEPT !.finished = TRUE,
                                   !.success = ParentSucceeded(job)],
                    1, job, fs[task.id].files)
             /\ Leave("none")
    /\ UNCHANGED <<phase, queue, task, idx, filepaths, sent, exitCause>>
    /\ UNCHANGED env

\* (a handler that lets only a ClientError skip the task)
AbortsClientOnly(e) == e = "client"

\* (a handler that lets only an HTTP error skip the task)
AbortsHttpOnly(e) == e = "http"

\* ------------------------------------------- main: after run() / check()
\* the except clauses of fdaemon.py 327-337
Aborts(e) == e \in {"http", "client"}

main_except ==
    /\ pc = "after"
    /\ IF Aborts(exc)
       THEN NextTask
       ELSE /\ pc' = "finalize"
            /\ UNCHANGED <<phase, queue, task, runner, idx, exc, filepaths, sent, exitCause>>
    /\ UNCHANGED env

\* -------------------------------------------------- main: finalization
RECURSIVE SetToSeq(_)
SetToSeq(S) ==
    IF S = {} THEN <<>>
    ELSE LET x == CHOOSE y \in S : TRUE IN <<x>> \o SetToSeq(S \ {x})

\* the loop over settings.output_artifacts, fdaemon.py 346-360
RECURSIVE ArtifactPaths(_, _)
ArtifactPaths(pats, files) ==
    IF pats = <<>> THEN <<>>
    ELSE SetToSeq(glob(Head(pats), files)) \o ArtifactPaths(Tail(pats), files)

\* (a finalization that reports no missing artifact)
ArtifactWarningsNone(pats, files) == <<>>

RECURSIVE ArtifactWarnings(_, _)
ArtifactWarnings(pats, files) ==
    IF pats = <<>> THEN <<>>
    ELSE (IF glob(Head(pats), files) = {}
          THEN <<Entry("output_artifacts", Head(pats))>> ELSE <<>>)
         \o ArtifactWarnings(Tail(pats), files)

\* (a finalization that uploads every output file, empty or not)
NonEmptyAll(fns, dir) == fns

\* [f for f in runner.outfiles if path.getsize(f)], fdaemon.py 363
NonEmpty(fns, dir) == SelectSeq(fns, LAMBDA f : f \in dir.data)

\* (a finalization that does not look at the flag)
FinishedAlways(r) == TRUE

Finished(r) == r.finished

\* path.getsize of a file that does not exist raises OSError, outside any try
main_collect ==
    /\ pc = "finalize"
    /\ IF ~Finished(runner)
       THEN NextTask
       ELSE LET dir == fs[task.id] IN
            IF \E f \in Range(runner.outfiles) : f \notin dir.files
            THEN Terminate("oserror")
            ELSE /\ runner' = [runner EXCEPT
                        !.warnings = @ \o ArtifactWarnings(
                                          settings[task.id].output_artifacts, dir.files)]
                 /\ filepaths' = Joined(task_dir(task.id),
                        ArtifactPaths(settings[task.id].output_artifacts, dir.files)
                        \o NonEmpty(runner.outfiles, dir))
                 /\ pc' = "upload"
                 /\ UNCHANGED <<phase, queue, task, idx, exc, sent, exitCause>>
    /\ UNCHANGED env

\* (an upload whose failure is passed over)
main_upload_lenient(ok) ==
    /\ pc = "upload"
    /\ IF filepaths = <<>>
       THEN /\ ok
            /\ pc' = "patch"
            /\ UNCHANGED <<phase, queue, task, runner, idx, exc, filepaths, sent, exitCause>>
       ELSE IF ok
       THEN /\ sent' = Append(sent, relpath(Head(filepaths), task_dir(task.id)))
            /\ filepaths' = Tail(filepaths)
            /\ pc' = "upload"
            /\ UNCHANGED <<phase, queue, task, runner, idx, exc, exitCause>>
       ELSE /\ pc' = "patch"
            /\ UNCHANGED <<phase, queue, task, runner, idx, exc, filepaths, sent, exitCause>>
    /\ UNCHANGED env

\* POST uploads, one file after the other, fdaemon.py 365-370
main_upload(ok) ==
    /\ pc = "upload"
    /\ IF filepaths = <<>>
       THEN /\ ok
            /\ pc' = "patch"
            /\ UNCHANGED <<phase, queue, task, runner, idx, exc, filepaths, sent, exitCause>>
       ELSE IF ok
       THEN /\ sent' = Append(sent, relpath(Head(filepaths), task_dir(task.id)))
            /\ filepaths' = Tail(filepaths)
            /\ pc' = "upload"
            /\ UNCHANGED <<phase, queue, task, runner, idx, exc, exitCause>>
       ELSE Terminate("http_upload")
    /\ UNCHANGED env

\* (a status that follows the finished flag)
TerminalStatusFinished(r) == IF r.finished THEN "done" ELSE "error"

\* 'done' if runner.success else 'error', fdaemon.py 373
TerminalStatus(r) == IF r.success THEN "done" ELSE "error"

\* (a patch that reports the errors only)
PayloadWithoutWarnings(r) == [warnings |-> <<>>, errors |-> r.errors]

\* 'data': runner.data, fdaemon.py 374
Payload(r) == [warnings |-> r.warnings, errors |-> r.errors]

main_patch(ok) ==
    /\ pc = "patch"
    /\ IF ok
       THEN /\ remote' = [remote EXCEPT ![task.id].status = TerminalStatus(runner),
                                         ![task.id].data = Payload(runner)]
            /\ NextTask
       ELSE /\ Terminate("http_patch")
            /\ UNCHANGED remote
    /\ UNCHANGED <<settings, fs, slurm, started>>

\* ------------------------------------------------------ the environment
\* a daemon on another host wins the claim of a new task
OtherDaemonClaims(t) ==
    /\ remote[t].status = "new"
    /\ remote' = Claimed(remote, t, OtherHost)
    /\ UNCHANGED <<settings, fs, slurm, started, pc, phase, queue, task,
                   runner, idx, exc, filepaths, sent, exitCause>>

\* the daemon process is killed, wherever it is
Crash ==
    /\ pc # "dead"
    /\ Terminate("killed")
    /\ UNCHANGED env

\* the daemon is started again: main() from its first line
Restart ==
    /\ pc = "dead"
    /\ pc' = "iter_own"
    /\ exitCause' = "none"
    /\ UNCHANGED <<phase, queue, task, runner, idx, exc, filepaths, sent>>
    /\ UNCHANGED env

\* the batch job leaves the live queue; the accounting then holds a record
\* of the job and of the commands that ran, or (parent "none") nothing
AcctRecords ==
    {a \in [parent : {"COMPLETED", "FAILED", "none"},
            cmds : [Cmds -> {"COMPLETED", "FAILED", "none"}]] :
        a.parent = "none" => \A k \in Cmds : a.cmds[k] = "none"}

\* the srun output of the commands whose files reached the directory
JobLogs(dir, ran) ==
    [dir EXCEPT !.files = @ \cup {StdoutFn(k) : k \in ran} \cup {StderrFn(k) : k \in ran},
                !.data = @ \cup {StdoutFn(k) : k \in ran}]

SlurmJobEnds(t, a, logs) ==
    /\ slurm[t].state = "queued"
    /\ slurm' = [slurm EXCEPT ![t] = [state |-> "ended", parent |-> a.parent,
                                      cmds |-> a.cmds]]
    /\ fs' = [fs EXCEPT ![t] = IF @.dir THEN JobLogs(@, logs) ELSE @]
    /\ UNCHANGED <<settings, remote, started, pc, phase, queue, task,
                   runner, idx, exc, filepaths, sent, exitCause>>

Next ==
    \/ \E ok \in BOOLEAN : task_iterator_own(ok)
    \/ task_iterator_yield
    \/ \E ok \in BOOLEAN : task_iterator_new(ok)
    \/ task_iterator_nap
    \/ \E ok \in BOOLEAN : main_claim(ok)
    \/ \E ok \in BOOLEAN : main_fetch(ok)
    \/ main_runner
    \/ main_stage_dir
    \/ \E ok \in BOOLEAN : main_stage_download(ok)
    \/ main_dispatch
    \/ \E ok \in BOOLEAN : DirectRunner_run_callback(ok)
    \/ \E ok \in BOOLEAN : DirectRunner_run_modules(ok)
    \/ \E opened \in 0..2 : DirectRunner_run_open(opened)
    \/ \E ok \in BOOLEAN : DirectRunner_run_exec(ok)
    \/ \E rc \in 0..1, out \in BOOLEAN : DirectRunner_run_wait(rc, out)
    \/ DirectRunner_check
    \/ \E ok \in BOOLEAN : SlurmRunner_run_open(ok)
    \/ \E ok \in BOOLEAN : SlurmRunner_run_sbatch(ok)
    \/ \E ok \in BOOLEAN : SlurmRunner_run_callback(ok)
    \/ \E squeue \in BOOLEAN, sacct \in BOOLEAN : SlurmRunner_check(squeue, sacct)
    \/ main_except
    \/ main_collect
    \/ \E ok \in BOOLEAN : main_upload(ok)
    \/ \E ok \in BOOLEAN : main_patch(ok)
    \/ \E t \in Tasks : OtherDaemonClaims(t)
    \/ Crash
    \/ Restart
    \/ \E t \in Tasks, a \in AcctRecords, logs \in SUBSET Cmds : SlurmJobEnds(t, a, logs)

Spec == Init /\ [][Next]_vars

\* ------------------------------------------------------------- fairness
\* a step of the daemon or of its supervisor, as opposed to one of the
\* service's other clients and of the batch system
Daemon ==
    \/ \E ok \in BOOLEAN : task_iterator_own(ok)
    \/ task_iterator_yield
    \/ \E ok \in BOOLEAN : task_iterator_new(ok)
    \/ task_iterator_nap
    \/ \E ok \in BOOLEAN : main_claim(ok)
    \/ \E ok \in BOOLEAN : main_fetch(ok)
    \/ main_runner
    \/ main_stage_dir
    \/ \E ok \in BOOLEAN : main_stage_download(ok)
    \/ main_dispatch
    \/ \E ok \in BOOLEAN : DirectRunner_run_callback(ok)
    \/ \E ok \in BOOLEAN : DirectRunner_run_modules(ok)
    \/ \E opened \in 0..2 : DirectRunner_run_open(opened)
    \/ \E ok \in BOOLEAN : DirectRunner_run_exec(ok)
    \/ \E rc \in 0..1, out \in BOOLEAN : DirectRunner_run_wait(rc, out)
    \/ DirectRunner_check
    \/ \E ok \in BOOLEAN : SlurmRunner_run_open(ok)
    \/ \E ok \in BOOLEAN : SlurmRunner_run_sbatch(ok)
    \/ \E ok \in BOOLEAN : SlurmRunner_run_callback(ok)
    \/ \E squeue \in BOOLEAN, sacct \in BOOLEAN : SlurmRunner_check(squeue, sacct)
    \/ main_except
    \/ main_collect
    \/ \E ok \in BOOLEAN : main_upload(ok)
    \/ \E ok \in BOOLEAN : main_patch(ok)
    \/ Restart

\* a transient failure: the daemon is killed, a remote call fails, a file
\* cannot be opened, squeue fails
TransientCauses ==
    {"killed", "http_list", "http_claim", "http_fetch", "http_download",
     "http_upload", "http_patch"}
Fault ==
    \/ exitCause' \in TransientCauses /\ exitCause = "none"
    \/ pc' = "after" /\ pc # "after" /\ Aborts(exc')
    \/ SlurmRunner_check(FALSE, TRUE)

\* The daemon keeps running and is started again when it has ended, a batch
\* job leaves the live queue eventually, and the transient failures stop
\* eventually (which is more than that every remote call succeeds
\* eventually).
Fairness ==
    /\ WF_vars(Daemon)
    /\ WF_vars(\E t \in Tasks, a \in AcctRecords, logs \in SUBSET Cmds : SlurmJobEnds(t, a, logs))
    /\ <>[][~Fault]_vars

SpecLive == Init /\ [][Next]_vars /\ Fairness

\* --------------------------------------------------------------- claims
ClaimedHere(t) ==
    remote[t].machine = Hostname /\ remote[t].status \in {"pending", "running"}
Terminal(t) == remote[t].status \in {"done", "error"}
Registered(t) == settings[t].runner \in RUNNERS \cup RUNNERS_runners
StagedFiles == {InfileFn(i) : i \in Infiles}
InRun == {"run_modules", "run_open", "run_exec", "run_wait"}
Ignored(k) == settings[task.id].ignore_returncode[k]
\* run() (and not check()) was called and has been left
AfterRun == pc = "after" /\ runner.name \in Blocking /\ task.status # "running"

\* C1: a task fetched as new whose claim the service acknowledged is held
\* by the daemon with status pending and machine = its hostname; it is then
\* staged and run (never checked) in the same pass.
C1_ClaimedIsPendingHere ==
    (task.fetched = "new" /\ pc # "acquire") =>
        /\ task.status = "pending"
        /\ task.machine = Hostname
        /\ pc # "check"
        /\ pc \in {"dispatch", "run"} =>
              fs[task.id].dir /\ fs[task.id].files = StagedFiles
C1_Witness == task.fetched = "new" /\ pc = "run" /\ task.machine = Hostname

\* C2: a claim the service refuses because another daemon has won the task
\* never ends the daemon process.
C2_LostClaimIsSkipped == exitCause # "claim_lost"

\* C3: every task claimed by this host (pending or running, machine = this
\* host) whose runner is registered is eventually patched to done or error.
C3_NoWorkLost ==
    \A t \in Tasks : (ClaimedHere(t) /\ Registered(t)) ~> Terminal(t)

C6_RunningNeverRestaged ==
    [][(/\ task.fetched = "running"
        /\ pc \in {"acquire", "mkrunner", "stage", "dispatch"}
        /\ pc' # pc)
       => (/\ fs' = fs
           /\ remote' = remote
           /\ pc' \in {"mkrunner", "stage", "dispatch", "check", "dead"})]_vars
C6_Witness == task.fetched = "running" /\ pc = "check" /\ fs[task.id].files # {}

\* C7: DirectRunner.run calls the running-task callback exactly once, and
\* before the first command is started: while run() is past the callback
\* the call has been made once and the service holds the task as running.
C7_CallbackOnceBeforeCommands ==
    runner.name \in Blocking =>
        /\ runner.cb <= 1
        /\ pc \in InRun => (runner.cb = 1 /\ remote[task.id].status = "running")
        /\ runner.rcs # <<>> => runner.cb = 1
        /\ AfterRun => runner.cb = 1
C7_Witness == runner.name \in Blocking /\ pc = "run_wait" /\ idx = 1

\* C8: when command k of a Direct task exits non-zero and is not to be
\* ignored, run() is left with success false, finished true and an error
\* entry for k, and no later command was attempted: none has an outcome,
\* a file in the directory or a recorded file.
C8_FailedCommandStopsRun ==
    runner.name \in Blocking =>
        \A k \in 1..Len(runner.rcs) :
            (runner.rcs[k] > 0 /\ ~Ignored(k)) =>
                /\ ~runner.success
                /\ runner.finished
                /\ Entry("commands", CmdName(k)) \in Range(runner.errors)
                /\ Len(runner.rcs) = k
                /\ pc \notin InRun
                /\ \A j \in Cmds : j > k =>
                      {StdoutFn(j), StderrFn(j)}
                        \cap (fs[task.id].files \cup Range(runner.outfiles)) = {}
C8_Witness ==
    /\ runner.name \in Blocking
    /\ pc = "finalize"
    /\ runner.rcs = <<1>>
    /\ ~Ignored(1)

\* C9: when command k of a Direct task exits non-zero and is to be ignored,
\* a warning entry (commands, name of k) is recorded and no error entry, and
\* the loop goes on to command k+1: run() is not left with the failure.
C9_IgnoredFailureContinues ==
    runner.name \in Blocking =>
        \A k \in 1..Len(runner.rcs) :
            (runner.rcs[k] > 0 /\ Ignored(k)) =>
                /\ Entry("commands", CmdName(k)) \in Range(runner.warnings)
                /\ Entry("commands", CmdName(k)) \notin Range(runner.errors)
                /\ idx > k
                /\ Len(runner.rcs) = k => (idx = k + 1 /\ exc # "other")
C9_Witness ==
    /\ runner.name \in Blocking
    /\ runner.success
    /\ \E k \in 1..Len(runner.rcs) : runner.rcs[k] > 0

\* C10 as stated: however run() is left, finished is true, and success is
\* true only if every command exited with zero or a tolerated status.
C10_FinishedHoweverLeft ==
    AfterRun =>
        /\ runner.finished
        /\ runner.success =>
              /\ Len(runner.rcs) = NumCmds
              /\ \A k \in Cmds : runner.rcs[k] = 0 \/ (runner.rcs[k] > 0 /\ Ignored(k))
\* C10 as amended: finished is true however run() is left once the callback
\* has returned, and false when the callback itself failed.
C10_FinishedOnceCallbackReturned ==
    AfterRun =>
        /\ runner.finished <=> exc # "http"
        /\ runner.success =>
              /\ exc = "none"
              /\ Len(runner.rcs) = NumCmds
              /\ \A k \in Cmds : runner.rcs[k] = 0 \/ (runner.rcs[k] > 0 /\ Ignored(k))
C10_Witness == AfterRun /\ exc = "other" /\ runner.rcs = <<>> /\ runner.finished

\* check() (and not run()) of a blocking runner was called and has been left
AfterCheck == pc = "after" /\ runner.name \in Blocking /\ task.status = "running"

\* C11: DirectRunner.check is left by raising, with finished true and
\* success false, and its outfiles hold only .out/.err files of commands
\* that exist in the task directory.
C11_CheckRecordsExistingFiles ==
    AfterCheck =>
        /\ runner.finished
        /\ ~runner.success
        /\ exc = "other"
        /\ \A f \in Range(runner.outfiles) :
              f[1] \in {"out", "err"} /\ f \in fs[task.id].files

\* the part of a pass that follows the dispatch
PassTail == {"check", "after", "finalize", "upload", "patch"}

\* C12: a pass that found a Direct/MPI task running goes from check()
\* through finalization to the patch of the task's status to error: unless
\* the process is killed or a remote call fails, no step of it ends the
\* daemon or the pass before that patch.
C12_RunningBlockingTaskFailed ==
    [][(/\ task.fetched = "running"
        /\ runner.name \in Blocking
        /\ pc \in PassTail
        /\ pc' # pc)
       => \/ pc' \in PassTail /\ remote' = remote
          \/ exitCause' \in TransientCauses
          \/ pc = "patch" /\ remote'[task.id].status = "error"]_vars

\* C13: SlurmRunner.run calls the running-task callback only after sbatch
\* has succeeded (the job is queued and nothing else has changed); when
\* sbatch fails the callback is not called, an error entry for sbatch is
\* appended, finished is set, success is not, and run() is left by raising.
C13_CallbackAfterSubmission ==
    [][runner.name = "slurm" =>
         /\ (pc = "sbatch" /\ pc' \notin {pc, "dead"}) =>
               \/ /\ pc' = "sbatch_cb"
                  /\ slurm'[task.id] = Queued
                  /\ runner' = runner
                  /\ remote' = remote
               \/ /\ pc' = "after"
                  /\ exc' = "other"
                  /\ slurm' = slurm
                  /\ remote' = remote
                  /\ runner'.cb = 0
                  /\ runner'.finished
                  /\ ~runner'.success
                  /\ runner'.errors =
                        Append(runner.errors, Entry("commands", <<"sbatch", 0>>))
         /\ (runner'.name = "slurm" /\ runner'.cb # runner.cb) =>
               pc = "sbatch_cb" /\ runner.cb = 0
         /\ (remote[task.id].status # "running"
               /\ remote'[task.id].status = "running") => pc = "sbatch_cb"]_vars
C13_Witness ==
    /\ runner.name = "slurm"
    /\ pc = "after"
    /\ task.status = "pending"
    /\ exc = "other"
    /\ runner.cb = 0
    /\ runner.finished

\* a pass in which SlurmRunner.check has found nothing final
SlurmUnfinished ==
    /\ runner.name = "slurm"
    /\ task.fetched = "running"
    /\ ~runner.finished
    /\ pc \in {"after", "finalize"}

ExaminedStep ==
    /\ pc = "check"
    /\ runner.name = "slurm"
    /\ slurm[task.id].state = "ended"
    /\ pc' = "after"
    /\ exc' = "none"
\* the state that step leaves
Examined ==
    /\ pc = "after"
    /\ runner.name = "slurm"
    /\ task.fetched = "running"
    /\ slurm[task.id].state = "ended"
    /\ runner.finished
    /\ exc = "none"
Count(seq, e) == Cardinality({i \in 1..Len(seq) : seq[i] = e})
CmdEntry(k) == Entry("commands", CmdName(k))

\* C15: for a job absent from the live queue whose parent record and every
\* recorded command are COMPLETED, check sets finished and success and
\* appends no error (and no warning) entry.
C15_CompletedJobSucceeds ==
    [][(/\ ExaminedStep
        /\ slurm[task.id].parent = "COMPLETED"
        /\ \A k \in Cmds : slurm[task.id].cmds[k] \in {"COMPLETED", "none"})
       => (/\ runner'.finished
           /\ runner'.success
           /\ runner'.errors = runner.errors
           /\ runner'.warnings = runner.warnings
           /\ runner'.errors = <<>>)]_vars
C15_Witness ==
    /\ Examined
    /\ runner.success
    /\ runner.errors = <<>>
    /\ \A k \in Cmds : slurm[task.id].cmds[k] = "COMPLETED"

\* C16: for a job absent from the live queue, success is exactly "the
\* parent record is COMPLETED"; every command with a record that is not
\* COMPLETED has exactly one entry (commands, name), among the errors when
\* the job failed and among the warnings when it succeeded, and each of its
\* .out/.err files is in outfiles exactly when it exists; the other commands
\* have no entry.
C16_ParentDecidesSuccess ==
    [][ExaminedStep =>
         LET job == slurm[task.id]
             r == runner'
         IN /\ r.finished
            /\ r.success <=> (job.parent = "COMPLETED")
            /\ \A k \in Cmds :
                 LET bad == job.cmds[k] \notin {"COMPLETED", "none"} IN
                 /\ Count(r.errors, CmdEntry(k)) = (IF bad /\ ~r.success THEN 1 ELSE 0)
                 /\ Count(r.warnings, CmdEntry(k)) = (IF bad /\ r.success THEN 1 ELSE 0)
                 /\ bad => \A f \in {StdoutFn(k), StderrFn(k)} :
                              f \in Range(r.outfiles) <=> f \in fs[task.id].files]_vars
C16_Witness ==
    /\ Examined
    /\ runner.success
    /\ slurm[task.id].cmds[1] = "FAILED"
    /\ CmdEntry(1) \in Range(runner.warnings)
    /\ StdoutFn(1) \in Range(runner.outfiles)
    /\ StdoutFn(2) \in fs[task.id].files

\* C18: in SlurmRunner.check a command without an accounting record gets
\* no error and no warning entry and none of its files is added to outfiles,
\* even when they exist; the commands after it are still examined, so a
\* later command whose record is not COMPLETED has its entry.
C18_SkippedCommandIgnored ==
    [][ExaminedStep =>
         \A k \in Cmds : slurm[task.id].cmds[k] = "none" =>
            /\ CmdEntry(k) \notin Range(runner'.errors) \cup Range(runner'.warnings)
            /\ {StdoutFn(k), StderrFn(k)} \cap Range(runner'.outfiles) = {}
            /\ \A j \in Cmds :
                  (j > k /\ slurm[task.id].cmds[j] = "FAILED") =>
                     CmdEntry(j) \in Range(runner'.errors) \cup Range(runner'.warnings)]_vars
C18_Witness ==
    /\ Examined
    /\ slurm[task.id].cmds[1] = "none"
    /\ slurm[task.id].cmds[2] = "FAILED"
    /\ StdoutFn(1) \in fs[task.id].files
    /\ StdoutFn(1) \notin Range(runner.outfiles)
    /\ CmdEntry(2) \in Range(runner.errors)

\* ------------------------------------------- SlurmRunner.check on its own
\* A SlurmRunner as main constructs it for a task that is running on this
\* host and whose job has left the live queue, with any accounting records
\* and any srun output in the task directory; check() is then called on
\* this one instance, up to MaxChecks times (idx counts the calls made).
InitCheck ==
    /\ \E ig \in [Cmds -> BOOLEAN] :
         settings = [t \in Tasks |->
                        IF t \in Submitted
                        THEN [runner |-> "slurm", ignore_returncode |-> ig,
                              commands |-> NumCmds,
                              output_artifacts |-> output_artifacts]
                        ELSE ForeignSettings]
    /\ remote = [t \in Tasks |->
                    IF t \in Submitted
                    THEN [status |-> "running", machine |-> Hostname, data |-> NoData]
                    ELSE [status |-> "done", machine |-> OtherHost, data |-> NoData]]
    /\ \E logs \in SUBSET Cmds :
         fs = [t \in Tasks |->
                  IF t \in Submitted
                  THEN JobLogs([dir |-> TRUE,
                                files |-> StagedFiles \cup {SbatchOut, SbatchErr},
                                data |-> StagedFiles], logs)
                  ELSE NoDir]
    /\ \E a \in AcctRecords :
         slurm = [t \in Tasks |->
                     IF t \in Submitted
                     THEN [state |-> "ended", parent |-> a.parent, cmds |-> a.cmds]
                     ELSE NoJob]
    /\ pc = "check"
    /\ phase = "own"
    /\ queue = <<>>
    /\ \E t \in Submitted : task = Representation(remote, t, "running")
    /\ runner = NewRunner("slurm")
    /\ idx = 1
    /\ exc = "none"
    /\ filepaths = <<>>
    /\ sent = <<>>
    /\ exitCause = "none"
    /\ started = [t \in Tasks |-> IF t \in Submitted THEN 1 ELSE 0]

\* the caller calls check() once more on the same instance
CheckAgain ==
    /\ pc = "after"
    /\ idx < MaxChecks
    /\ pc' = "check"
    /\ idx' = idx + 1
    /\ exc' = "none"
    /\ UNCHANGED <<phase, queue, task, runner, filepaths, sent, exitCause>>
    /\ UNCHANGED env

NextCheck ==
    \/ \E squeue \in BOOLEAN, sacct \in BOOLEAN : SlurmRunner_check(squeue, sacct)
    \/ CheckAgain

SpecCheck == InitCheck /\ [][NextCheck]_vars

\* what one call of check() leaves in a new instance
CheckedOnce(job, present) ==
    SacctCommands([NewRunner("slurm") EXCEPT !.finished = TRUE,
                                             !.success = ParentSucceeded(job)],
                  1, job, present)

\* C17: however often check() has been called on a finished job whose
\* records did not change, success, the warnings and the errors are what
\* one call leaves: no entry is there twice.
C17_CheckIdempotent ==
    Examined =>
        LET once == CheckedOnce(slurm[task.id], fs[task.id].files) IN
        /\ runner.success = once.success
        /\ runner.warnings = once.warnings
        /\ runner.errors = once.errors
        /\ \A k \in Cmds : Count(runner.errors, CmdEntry(k)) <= 1
        /\ \A k \in Cmds : Count(runner.warnings, CmdEntry(k)) <= 1

\* C19: a task's status becomes done or error only by the patch of
\* finalization; the status sent is done exactly when the runner's success
\* flag is set and error otherwise, and the data sent are the runner's
\* warnings and errors as accumulated, the output-artifact warnings
\* included (no file ever matches calc.log).
C19_TerminalPatch ==
    [][\A t \in Tasks : remote'[t] # remote[t] /\ remote'[t].status \in {"done", "error"} =>
          /\ pc = "patch"
          /\ t = task.id
          /\ remote'[t].status = "done" <=> runner.success
          /\ remote'[t].status = "error" <=> ~runner.success
          /\ remote'[t].data.warnings = runner.warnings
          /\ remote'[t].data.errors = runner.errors
          /\ Entry("output_artifacts", PatLog) \in Range(remote'[t].data.warnings)
          /\ remote'[t].machine = remote[t].machine]_vars
C19_Witness ==
    \E t \in Submitted :
        /\ remote[t].status = "done"
        /\ CmdEntry(1) \in Range(remote[t].data.warnings)
        /\ Entry("output_artifacts", PatLog) \in Range(remote[t].data.warnings)

\* C20: when run() or check() was left with an exception that is neither an
\* HTTP error nor a ClientError, the daemon goes on to finalization with the
\* runner as it is, and from there to the uploads if finished is set and to
\* the next task if it is not: nothing but a kill ends the process there.
C20_OtherExceptionFinalized ==
    [][(pc \in {"after", "finalize"} /\ exc = "other" /\ pc' # pc) =>
          \/ exitCause' = "killed"
          \/ pc = "after" /\ pc' = "finalize" /\ runner' = runner
          \/ pc = "finalize" /\ runner.finished /\ pc' = "upload"
          \/ /\ pc = "finalize"
             /\ ~runner.finished
             /\ pc' \in {"yield_own", "nap"}
             /\ remote' = remote]_vars

\* the step of finalization that collects the files to upload
CollectStep == pc = "finalize" /\ pc' = "upload"

\* C21: when finalization collects the artifacts, every pattern of
\* output_artifacts that matches no file of the task directory adds exactly
\* one warning for that pattern and every pattern that matches adds none;
\* no error is added, the success flag is untouched, the files the other
\* patterns match are all queued for upload, and the uploads and the
\* terminal patch follow.
C21_MissingArtifactWarns ==
    [][CollectStep =>
          LET pats == settings[task.id].output_artifacts
              files == fs[task.id].files
              added(p) == Count(runner'.warnings, Entry("output_artifacts", p))
                          - Count(runner.warnings, Entry("output_artifacts", p))
          IN  /\ \A i \in 1..Len(pats) :
                    /\ added(pats[i]) = IF glob(pats[i], files) = {} THEN 1 ELSE 0
                    /\ \A f \in glob(pats[i], files) :
                          join(task_dir(task.id), f) \in Range(filepaths')
              /\ Len(runner'.warnings) - Len(runner.warnings)
                     = Cardinality({i \in 1..Len(pats) : glob(pats[i], files) = {}})
              /\ runner'.errors = runner.errors
              /\ runner'.success = runner.success]_vars
C21_Witness ==
    /\ pc = "patch"
    /\ Count(runner.warnings, Entry("output_artifacts", PatLog)) = 1
    /\ StdoutFn(1) \in Range(sent)
    /\ runner.errors = <<>>

\* the file is matched by one of the task's output_artifacts patterns
Matched(f, t) ==
    \E i \in 1..Len(settings[t].output_artifacts) :
        f \in glob(settings[t].output_artifacts[i], fs[t].files)

\* C22: every upload is named by the file's path relative to the task
\* directory; a file that no output_artifacts pattern matches is uploaded
\* only if it is one of the runner's outfiles and is not empty, and once the
\* uploads are through every non-empty outfile has been sent.
C22_NonEmptyOutfilesUploaded ==
    pc \in {"upload", "patch"} =>
        /\ \A i \in 1..Len(sent) :
              /\ sent[i] \in fs[task.id].files
              /\ Matched(sent[i], task.id)
                 \/ /\ sent[i] \in Range(runner.outfiles)
                    /\ sent[i] \in fs[task.id].data
        /\ \A i \in 1..Len(filepaths) : filepaths[i][1] = task_dir(task.id)
        /\ pc = "patch" =>
              \A f \in Range(runner.outfiles) :
                  f \in fs[task.id].data => f \in Range(sent)
C22_Witness ==
    /\ pc = "patch"
    /\ StderrFn(1) \in Range(sent)
    /\ StderrFn(2) \in Range(runner.outfiles)
    /\ StderrFn(2) \notin Range(sent)
    /\ ~Matched(StderrFn(1), task.id)

\* the daemon's step out of the handler of exception e, a kill apart
Handled(e) == pc = "after" /\ exc = e /\ pc' # pc /\ exitCause' # "killed"

\* the loop goes on to the next task and the service keeps what it had
Skipped ==
    /\ pc' \in {"yield_own", "nap"}
    /\ task' = NoTask
    /\ remote' = remote
    /\ fs' = fs
    /\ queue' = queue
    /\ exitCause' = exitCause

\* C23: when run() or check() is left with an HTTP error (the callback that
\* sets the task running failed), nothing has been uploaded, the step that
\* raised it left the service's record untouched, and the daemon's next step
\* drops the task and resumes the iterator: no upload, no terminal patch, the
\* remote status as it was, the process alive.
C23_HttpErrorSkipsTask ==
    /\ [][exc' = "http" /\ exc # "http" => remote' = remote /\ sent' = <<>>]_vars
    /\ [][Handled("http") => Skipped /\ sent = <<>>]_vars
C23_Witness ==
    /\ pc = "after"
    /\ exc = "http"
    /\ runner.name = "direct"
    /\ remote[task.id].status = "pending"
    /\ StagedFiles \subseteq fs[task.id].files

C25_StagingHttpErrorSurvived ==
    exitCause \notin {"http_fetch", "http_download", "http_upload", "http_patch"}

\* C26: for a task whose settings name a runner that is not registered, the
\* lookup ends the process with the uncaught error and changes nothing on
\* the service or on disk; no run of such a task is ever started, no task
\* directory is made for it and its status never becomes running, done or
\* error.
C26_UnknownRunnerFatal ==
    /\ [][pc = "mkrunner" /\ ~Registered(task.id) /\ pc' # pc =>
             /\ pc' = "dead"
             /\ exitCause' \in {"no_runner", "killed"}
             /\ remote' = remote
             /\ fs' = fs]_vars
    /\ [](\A t \in Submitted : ~Registered(t) =>
             /\ started[t] = 0
             /\ fs[t] = NoDir
             /\ remote[t].status \notin {"running", "done", "error"}
             /\ (task # NoTask /\ task.id = t) => runner = NoRunner)
C26_Witness ==
    /\ exitCause = "no_runner"
    /\ \E t \in Submitted :
          /\ ~Registered(t)
          /\ remote[t].status = "pending"
          /\ remote[t].machine = Hostname

\* ------------------------------------------------ several tasks at once
\* The service holds several tasks when the daemon starts: new ones, ones
\* this host claimed or was running when it was stopped, and ones of another
\* host. All of them are Direct tasks of one command.
IterSettings ==
    [runner |-> "direct", ignore_returncode |-> [k \in Cmds |-> FALSE],
     commands |-> 1, output_artifacts |-> <<PatLog>>]

IterRecords ==
    {[status |-> "new", machine |-> NoHost, data |-> NoData],
     [status |-> "pending", machine |-> Hostname, data |-> NoData],
     [status |-> "running", machine |-> Hostname, data |-> NoData],
     [status |-> "done", machine |-> OtherHost, data |-> NoData]}

\* the directory of a task that was running when the daemon was stopped
RunningDir ==
    [files |-> StagedFiles \cup {StdoutFn(1), StderrFn(1)}, data |-> StagedFiles]

InitIter ==
    /\ settings = [t \in Tasks |-> IterSettings]
    /\ remote \in [Tasks -> IterRecords]
    /\ fs = [t \in Tasks |-> IF remote[t].status = "running" THEN RunningDir ELSE NoDir]
    /\ slurm = [t \in Tasks |-> NoJob]
    /\ pc = "iter_own"
    /\ phase = "own"
    /\ queue = <<>>
    /\ task = NoTask
    /\ runner = NoRunner
    /\ idx = 0
    /\ exc = "none"
    /\ filepaths = <<>>
    /\ sent = <<>>
    /\ exitCause = "none"
    /\ started = [t \in Tasks |-> IF remote[t].status = "running" THEN 1 ELSE 0]

NextIter ==
    \/ \E ok \in BOOLEAN : task_iterator_own(ok)
    \/ task_iterator_yield
    \/ \E ok \in BOOLEAN : task_iterator_new(ok)
    \/ task_iterator_nap
    \/ \E ok \in BOOLEAN : main_claim(ok)
    \/ \E ok \in BOOLEAN : main_fetch(ok)
    \/ main_runner
    \/ main_stage_dir
    \/ \E ok \in BOOLEAN : main_stage_download(ok)
    \/ main_dispatch
    \/ \E ok \in BOOLEAN : DirectRunner_run_callback(ok)
    \/ \E ok \in BOOLEAN : DirectRunner_run_modules(ok)
    \/ \E opened \in 0..2 : DirectRunner_run_open(opened)
    \/ \E ok \in BOOLEAN : DirectRunner_run_exec(ok)
    \/ \E rc \in 0..1, out \in BOOLEAN : DirectRunner_run_wait(rc, out)
    \/ DirectRunner_check
    \/ main_except
    \/ main_collect
    \/ \E ok \in BOOLEAN : main_upload(ok)
    \/ \E ok \in BOOLEAN : main_patch(ok)
    \/ \E t \in Tasks : OtherDaemonClaims(t)
    \/ Crash
    \/ Restart

SpecIter == InitIter /\ [][NextIter]_vars

\* the iterator hands a task to the loop body
Yields == task = NoTask /\ task' # NoTask

\* the tasks the service lists for this host: pending or running, assigned
\* to it, in the order of the service (the order of their ids)
OwnListing(q) ==
    /\ \A i \in 1..Len(q) :
          /\ remote[q[i].id].machine = Hostname
          /\ remote[q[i].id].status \in {"pending", "running"}
          /\ q[i].status = remote[q[i].id].status
    /\ \A t \in Tasks :
          remote[t].machine = Hostname /\ remote[t].status \in {"pending", "running"}
              => \E i \in 1..Len(q) : q[i].id = t
    /\ \A i, j \in 1..Len(q) : i < j => q[i].id < q[j].id

\* C27: a cycle of the iterator starts with the list of this host's pending
\* and running tasks as the service orders them; every task yielded from it
\* is the first not yet yielded, so they come in the service's order; the
\* query for a new task is made only when the list is used up, yields at
\* most the one task the service answers with, whose status is new and which
\* has no host, and after that task the iterator sleeps: the new task is
\* the last of the cycle, and nothing else is ever yielded.
C27_OwnTasksThenOneNew ==
    /\ [][pc = "iter_own" /\ pc' = "yield_own" => OwnListing(queue')]_vars
    /\ [][Yields /\ pc = "yield_own" =>
             /\ queue # <<>>
             /\ task'.id = Head(queue).id
             /\ task'.status = Head(queue).status
             /\ task'.status \in {"pending", "running"}
             /\ queue' = Tail(queue)
             /\ phase' = "own"]_vars
    /\ [][Yields /\ pc # "yield_own" =>
             /\ pc = "iter_new"
             /\ queue = <<>>
             /\ remote[task'.id].status = "new"
             /\ remote[task'.id].machine = NoHost
             /\ task'.status = "new"
             /\ phase' = "new"]_vars
    /\ [][phase = "new" /\ task # NoTask /\ task' = NoTask =>
             pc' \in {"nap", "dead"}]_vars
    /\ [][pc = "nap" => ~Yields]_vars
C27_Witness ==
    /\ pc = "acquire"
    /\ phase = "own"
    /\ task.id = 2
    /\ queue = <<>>
    /\ remote[1].machine = Hostname
    /\ remote[1].status \in {"done", "error"}
    /\ remote[1].data.warnings # <<>>

\* C29: the loop body holds one task at a time and the iterator is resumed
\* only when the body is through with it: a task is yielded only when no
\* task is held and nothing of the previous one is left in the daemon; while
\* a task is held the daemon touches the directory and the record of that
\* task only and the list of the cycle stays as it is; and the query for a
\* new task is reached only from the exhausted list.
C29_OneTaskAtATime ==
    /\ [][task' # NoTask /\ task' # task =>
             \/ /\ Yields
                /\ pc \in {"yield_own", "iter_new"}
                /\ runner = NoRunner
                /\ filepaths = <<>>
                /\ sent = <<>>
                /\ exc = "none"
             \/ task # NoTask /\ task'.id = task.id]_vars
    /\ [][task # NoTask =>
             /\ \A u \in Tasks \ {task.id} :
                   /\ fs'[u] = fs[u]
                   /\ started'[u] = started[u]
                   /\ remote'[u] = remote[u] \/ remote'[u].machine = OtherHost
             /\ task' # NoTask => queue' = queue]_vars
    /\ [][pc' = "iter_new" /\ pc # "iter_new" =>
             pc = "yield_own" /\ queue = <<>> /\ task = NoTask]_vars
    /\ [](pc = "iter_new" => queue = <<>> /\ task = NoTask)
C29_Witness ==
    /\ pc = "acquire"
    /\ phase = "new"
    /\ task.fetched = "new"
    /\ \E t \in Tasks \ {task.id} :
          /\ remote[t].machine = Hostname
          /\ remote[t].status \in {"done", "error"}
          /\ started[t] = 1

\* C28 as stated: once the tasks of a cycle have been yielded the iterator
\* is over; it is not the iterator that goes on to the next listing.
C28_IteratorEndsAfterCycle ==
    [][pc = "nap" => pc' # "iter_own"]_vars

\* C28: the iterator never ends by itself. After the tasks of a cycle it
\* sleeps and begins the next cycle with a new listing, within the same
\* invocation; it is every cycle that is finite: from its listing the
\* iterator reaches its sleep (or the process has ended) once the
\* processing of the tasks it yielded has come to an end.
C28_IteratorCyclesForever ==
    /\ [][pc = "nap" /\ pc' # pc => pc' = "iter_own" \/ exitCause' = "killed"]_vars
    /\ [][pc' = "iter_own" /\ pc # "iter_own" => pc \in {"nap", "dead"}]_vars
    /\ (pc = "iter_own") ~> (pc \in {"nap", "dead"})
C28_Witness ==
    /\ pc = "iter_own"
    /\ phase = "new"
    /\ exitCause = "none"
    /\ \E t \in Submitted :
          remote[t].machine = Hostname /\ remote[t].status \in {"done", "error"}

\* ------------------------------------------- one failing command, end to end
\* One new task of a blocking runner whose only command exits with a
\* non-zero status and writes nothing, ignore_returncode unset; its
\* output_artifacts name calc.log, which nothing creates.
CalcSettings(r) ==
    [runner |-> r, ignore_returncode |-> [k \in Cmds |-> FALSE],
     commands |-> 1, output_artifacts |-> <<PatLog>>]

InitCalc ==
    /\ \E r \in Blocking :
         settings = [t \in Tasks |-> IF t \in Submitted THEN CalcSettings(r)
                                                       ELSE ForeignSettings]
    /\ remote = [t \in Tasks |-> IF t \in Submitted
                                  THEN [status |-> "new", machine |-> NoHost,
                                        data |-> NoData]
                                  ELSE [status |-> "done", machine |-> OtherHost,
                                        data |-> NoData]]
    /\ fs = [t \in Tasks |-> NoDir]
    /\ slurm = [t \in Tasks |-> NoJob]
    /\ pc = "iter_own"
    /\ phase = "own"
    /\ queue = <<>>
    /\ task = NoTask
    /\ runner = NoRunner
    /\ idx = 0
    /\ exc = "none"
    /\ filepaths = <<>>
    /\ sent = <<>>
    /\ exitCause = "none"
    /\ started = [t \in Tasks |-> 0]

NextCalc ==
    \/ \E ok \in BOOLEAN : task_iterator_own(ok)
    \/ task_iterator_yield
    \/ \E ok \in BOOLEAN : task_iterator_new(ok)
    \/ task_iterator_nap
    \/ \E ok \in BOOLEAN : main_claim(ok)
    \/ \E ok \in BOOLEAN : main_fetch(ok)
    \/ main_runner
    \/ main_stage_dir
    \/ \E ok \in BOOLEAN : main_stage_download(ok)
    \/ main_dispatch
    \/ \E ok \in BOOLEAN : DirectRunner_run_callback(ok)
    \/ \E ok \in BOOLEAN : DirectRunner_run_modules(ok)
    \/ \E opened \in 0..2 : DirectRunner_run_open(opened)
    \/ \E ok \in BOOLEAN : DirectRunner_run_exec(ok)
    \/ DirectRunner_run_wait(1, FALSE)
    \/ DirectRunner_check
    \/ main_except
    \/ main_collect
    \/ \E ok \in BOOLEAN : main_upload(ok)
    \/ \E ok \in BOOLEAN : main_patch(ok)
    \/ \E t \in Tasks : OtherDaemonClaims(t)
    \/ Crash
    \/ Restart

SpecCalc == InitCalc /\ [][NextCalc]_vars

\* C30: for a blocking task with the single command, which exits non-zero
\* without output and whose status is not ignored, and the one artifact
\* pattern calc.log that matches nothing, the terminal patch of the pass
\* that ran the command sets the status error with exactly one error, the
\* entry of the command, and exactly one warning, the entry of the pattern,
\* and nothing has been uploaded: the two log files are empty.
C30_FailingCalcReported ==
    [][pc = "patch" /\ remote'[task.id] # remote[task.id] /\ runner.rcs = <<1>> =>
          /\ remote'[task.id].status = "error"
          /\ remote'[task.id].data.errors = <<CmdEntry(1)>>
          /\ remote'[task.id].data.warnings = <<Entry("output_artifacts", PatLog)>>
          /\ sent = <<>>
          /\ {StdoutFn(1), StderrFn(1)} \subseteq fs[task.id].files
          /\ {StdoutFn(1), StderrFn(1)} \cap fs[task.id].data = {}]_vars
C30_Witness ==
    \E t \in Submitted :
        /\ remote[t].status = "error"
        /\ remote[t].data.errors = <<CmdEntry(1)>>
        /\ remote[t].data.warnings = <<Entry("output_artifacts", PatLog)>>
        /\ started[t] = 1
        /\ StdoutFn(1) \in fs[t].files \ fs[t].data

\* C31 as stated: once a task is acquired, the status the daemon holds for
\* it is the status of the service's record, after every call that changed it.
C31_LocalStatusIsRemote ==
    task # NoTask /\ pc # "acquire" => task.status = remote[task.id].status

\* C31: at every point where the daemon decides by the task's status (the
\* staging, and the choice between run and check) the status it holds is the
\* one of the service's record, read from the answer to the claim or to the
\* fetch; the call that sets the task running leaves the daemon's copy as it
\* was, pending, so from then on the copy lags behind the service.
C31_DecisionsOnAcknowledgedStatus ==
    /\ [](pc \in {"mkrunner", "stage", "download", "dispatch"} =>
             /\ task.status = remote[task.id].status
             /\ task.machine = remote[task.id].machine)
    /\ [][\A t \in Tasks :
             remote'[t].status = "running" /\ remote[t].status # "running" =>
                 /\ task.id = t
                 /\ task' = task
                 /\ task.status = "pending"]_vars
C31_Witness ==
    /\ pc = "dispatch"
    /\ task.fetched = "new"
    /\ task.status = "pending"
    /\ remote[task.id].status = "pending"
    /\ started[task.id] = 0

MaxPairs == 2
MaxArgs == 2

Word(w) == <<"word", w>>
Flag(k) == <<"flag", k>>

SeqsUpTo(S, n) == UNION {[1..m -> S] : m \in 0..n}

\* machine.mpirun_args: a dict, as the sequence of its items; keys are unique
MpirunKeys == {"np", "host"}
MpirunArgs ==
    {ps \in SeqsUpTo(MpirunKeys \X {"v"}, MaxPairs) :
        \A i, j \in 1..Len(ps) : i # j => ps[i][1] # ps[j][1]}

\* settings['commands']: cmd and args of every command
Commands ==
    {cs \in SeqsUpTo([cmd : {Word("calc")},
                      args : SeqsUpTo({Word("x"), Word("y")}, MaxArgs)], NumCmds) :
        cs # <<>>}

\* ("--{}".format(arg), value) for every item, chained
RECURSIVE Chained(_)
Chained(ps) ==
    IF ps = <<>> THEN <<>>
    ELSE <<Flag(Head(ps)[1]), Word(Head(ps)[2])>> \o Chained(Tail(ps))

\* chain.from_iterable(...): an iterator object; nothing iterates over it
ChainObject == <<"chain", "object">>

\* mpirun_args = [chain.from_iterable(...)]: a list of one element
mpirun_args(ps) == <<ChainObject>>

\* str(x) of map(str, ...): a string stays, an object becomes its repr
Str(x) == IF x = ChainObject THEN Word("<itertools.chain object>") ELSE x

\* the loop over the commands in MPIRunner.__init__
Rewritten(cs, ps) ==
    [k \in 1..Len(cs) |->
        [cmd |-> Word("mpirun"),
         args |-> mpirun_args(ps) \o <<cs[k].cmd>> \o cs[k].args]]

\* map(str, [entry['cmd']] + entry['args']) of DirectRunner.run
Argv(entry) ==
    [i \in 1..(1 + Len(entry.args)) |-> Str((<<entry.cmd>> \o entry.args)[i])]

InitMPI ==
    /\ \E ps \in MpirunArgs, cs \in Commands :
         settings = [t \in Tasks |-> [runner |-> "mpi", mpirun_args |-> ps,
                                      commands |-> cs]]
    /\ remote = [t \in Tasks |-> [status |-> "pending", machine |-> Hostname,
                                  data |-> NoData]]
    /\ fs = [t \in Tasks |-> EmptyDir]
    /\ slurm = [t \in Tasks |-> NoJob]
    /\ pc = "mkrunner"
    /\ phase = "own"
    /\ queue = <<>>
    /\ task = [id |-> 1, fetched |-> "pending", status |-> "pending",
               machine |-> Hostname]
    /\ runner = [name |-> "none", commands |-> <<>>, argv |-> <<>>]
    /\ idx = 0
    /\ exc = "none"
    /\ filepaths = <<>>
    /\ sent = <<>>
    /\ exitCause = "none"
    /\ started = [t \in Tasks |-> 0]

\* MPIRunner(settings, task_dir)
MPIRunner_init ==
    /\ pc = "mkrunner"
    /\ runner' = [name |-> "mpi",
                  commands |-> Rewritten(settings[task.id].commands,
                                         settings[task.id].mpirun_args),
                  argv |-> <<>>]
    /\ idx' = 1
    /\ pc' = "run_exec"
    /\ UNCHANGED <<phase, queue, task, exc, filepaths, sent, exitCause>>
    /\ UNCHANGED env

\* run(): the argument vector of the next command, in the order of the list
MPIRunner_run_argv ==
    /\ pc = "run_exec"
    /\ IF idx > Len(runner.commands)
       THEN /\ pc' = "after"
            /\ UNCHANGED <<runner, idx>>
       ELSE /\ runner' = [runner EXCEPT !.argv = Append(@, Argv(runner.commands[idx]))]
            /\ idx' = idx + 1
            /\ pc' = "run_exec"
    /\ UNCHANGED <<phase, queue, task, exc, filepaths, sent, exitCause>>
    /\ UNCHANGED env

NextMPI ==
    \/ MPIRunner_init
    \/ MPIRunner_run_argv

SpecMPI == InitMPI /\ [][NextMPI]_vars

\* C33: once the MPI runner has run, there is one argument vector for each
\* configured command, in the configured order, and each is the launcher,
\* then "--key" and the value for every pair of mpirun_args, then the
\* original executable, then the original arguments in their order.
C33_MpirunPrefixesCommand ==
    pc = "after" =>
        LET cs == settings[task.id].commands
            ps == settings[task.id].mpirun_args
        IN  /\ Len(runner.argv) = Len(cs)
            /\ \A k \in 1..Len(cs) :
                  runner.argv[k] = <<Word("mpirun")>> \o Chained(ps)
                                   \o <<cs[k].cmd>> \o cs[k].args

\* s is an initial part of t
IsPrefix(s, t) == Len(s) <= Len(t) /\ SubSeq(t, 1, Len(s)) = s

\* C34: as long as a runner exists, every step leaves in its outfiles, its
\* warnings and its errors what was there, in the same place, and adds at
\* the end at most; and the finished flag, once set, stays set.
C34_RunnerCollectionsGrow ==
    [][runner # NoRunner /\ runner' # NoRunner =>
          /\ IsPrefix(runner.outfiles, runner'.outfiles)
          /\ IsPrefix(runner.warnings, runner'.warnings)
          /\ IsPrefix(runner.errors, runner'.errors)
          /\ runner.finished => runner'.finished]_vars
C34_Witness ==
    /\ pc = "run_open"
    /\ idx = 2
    /\ Len(runner.outfiles) = 2
    /\ runner.warnings # <<>>
    /\ runner.finished

\* C35: a runner whose success flag is set has its finished flag set and
\* has recorded no error.
C35_SuccessIsFinishedWithoutErrors ==
    runner # NoRunner /\ runner.success => runner.finished /\ runner.errors = <<>>
C35_Witness ==
    /\ runner.name = "slurm"
    /\ runner.success
    /\ runner.finished
    /\ Entry("commands", CmdName(1)) \in Range(runner.warnings)
    /\ pc = "after"

\* C36: whenever the status of a task becomes done, it was running just
\* before: no step takes a task from new or pending (or error) to done.
C36_DoneOnlyFromRunning ==
    [][\A t \in Tasks :
          remote'[t].status = "done" /\ remote[t].status # "done" =>
              /\ remote[t].status = "running"
              /\ remote[t].machine = Hostname
              /\ pc = "patch"]_vars
C36_Witness ==
    \E t \in Submitted :
        /\ remote[t].status = "done"
        /\ remote[t].machine = Hostname
        /\ settings[t].runner = "slurm"
        /\ slurm[t].state = "ended"

\* C37: when the run of a blocking runner was left with the HTTP error of
\* the callback, no command has been started in this pass, the directory
\* holds the staged input and no log file, finished and success are false
\* and the task is pending on this host; the daemon's next step drops the
\* task without upload or patch; and a task fetched as pending is staged
\* from scratch and run, not checked.
C37_FailedCallbackLeavesPending ==
    /\ [](pc = "after" /\ exc = "http" /\ runner.name \in Blocking =>
             /\ runner.rcs = <<>>
             /\ runner.outfiles = <<>>
             /\ ~runner.finished /\ ~runner.success
             /\ fs[task.id].files = StagedFiles
             /\ remote[task.id].status = "pending"
             /\ remote[task.id].machine = Hostname)
    /\ [][exc' = "http" /\ exc # "http" /\ runner.name \in Blocking =>
             started' = started /\ remote' = remote /\ fs' = fs]_vars
    /\ [][Handled("http") /\ runner.name \in Blocking => Skipped /\ sent = <<>>]_vars
    /\ [][task # NoTask /\ task.fetched = "pending" /\ pc' # pc /\ exitCause' # "killed" =>
             /\ pc = "stage" => pc' = "download" /\ fs'[task.id] = EmptyDir
             /\ pc = "dispatch" => pc' = "run"]_vars
C37_Witness ==
    /\ pc = "after"
    /\ exc = "http"
    /\ runner.name \in Blocking
    /\ task.fetched = "pending"
    /\ started[task.id] = 0

\* the open() of a command's .err file failed after its .out file was made:
\* the mark a ClientError of an earlier run leaves in the directory
OpenFailed(t) ==
    \E k \in Cmds : StdoutFn(k) \in fs[t].files /\ StderrFn(k) \notin fs[t].files

\* C38: a blocking task that a ClientError left running is checked on the
\* next pass, not run again, and the finalization of that pass goes through
\* to the uploads and ends in the patch to error.
C38_ClientErrorTaskFailedNextPass ==
    /\ [][pc = "dispatch" /\ task.fetched = "running" /\ pc' # pc /\ exitCause' # "killed" =>
             pc' = "check"]_vars
    /\ [][/\ pc = "finalize"
          /\ task.fetched = "running"
          /\ runner.name \in Blocking
          /\ OpenFailed(task.id)
          /\ pc' # pc
          /\ exitCause' # "killed"
          => pc' = "upload" /\ ~runner.success]_vars

\* C39: the terminal patch is reached only from the uploads with no file
\* left to send, and it is sent once: whether it succeeds or not, the pass
\* is over after it; an upload that fails ends the pass there, with the
\* service's record of the task as it was.
C39_PatchAfterAllUploads ==
    /\ [](pc = "patch" => filepaths = <<>>)
    /\ [][pc' = "patch" /\ pc # "patch" => pc = "upload" /\ filepaths = <<>>]_vars
    /\ [][pc = "patch" /\ pc' # pc =>
             /\ pc' \in {"yield_own", "nap", "dead"}
             /\ task' = NoTask]_vars
    /\ [][pc = "upload" /\ filepaths # <<>> /\ pc' # pc =>
             pc' = "dead" /\ remote' = remote]_vars
    /\ [][\A t \in Tasks :
             remote'[t] # remote[t] /\ remote'[t].status \in {"done", "error"} =>
                 pc = "patch" /\ task.id = t /\ filepaths = <<>>]_vars
C39_Witness ==
    /\ exitCause = "http_upload"
    /\ \E t \in Submitted :
          /\ remote[t].status = "running"
          /\ remote[t].data = NoData
          /\ fs[t].data # StagedFiles

\* C40: within one finalization no file is uploaded twice: the names sent
\* are pairwise different, and so are the paths still to be sent.
C40_NoFileUploadedTwice ==
    /\ \A i, j \in 1..Len(sent) : i # j => sent[i] # sent[j]
    /\ \A i, j \in 1..Len(filepaths) : i # j => filepaths[i] # filepaths[j]

====
